---- MODULE Spec2Model ----
(***************************************************************************)
(* Outline extraction (app/outline_extractor.py) and its batch driver      *)
(* (app/main.py).                                                          *)
(*                                                                         *)
(* A text is a sequence of one-character strings.  Sizes are font sizes in *)
(* whole points; the three size thresholds are kept in hundredths of a     *)
(* point (body * 150, body * 130, body * 115) so that the comparisons of   *)
(* the code are exact integer comparisons; for the sizes of the inputs     *)
(* below they agree with the code's floating-point comparisons.            *)
(***************************************************************************)
EXTENDS Integers, Sequences, FiniteSets, TLC

(***************************************************************************)
(* Characters                                                              *)
(***************************************************************************)

\* The printable ASCII characters in code-point order, in three runs: 32 .. 91,
\* 93 .. 95 and 97 .. 126 (the backslash, 92, and the backquote, 96, occur in
\* no text).
AsciiLow ==
  <<" ", "!", "\"", "#", "$", "%", "&", "'", "(", ")", "*", "+", ",", "-", ".", "/", "0", "1", "2", "3", "4", "5", "6", "7", "8", "9", ":", ";", "<", "=", ">", "?", "@">> \o <<"A", "B", "C", "D", "E", "F", "G", "H", "I", "J", "K", "L", "M", "N", "O", "P", "Q", "R", "S", "T", "U", "V", "W", "X", "Y", "Z", "[">>
AsciiMid == <<"]", "^", "_">>
AsciiHigh == <<"a", "b", "c", "d", "e", "f", "g", "h", "i", "j", "k", "l", "m", "n", "o", "p", "q", "r", "s", "t", "u", "v", "w", "x", "y", "z", "{", "|", "}", "~">>

UpperSeq == <<"A", "B", "C", "D", "E", "F", "G", "H", "I", "J", "K", "L", "M", "N", "O", "P", "Q", "R", "S", "T", "U", "V", "W", "X", "Y", "Z">>
LowerSeq == <<"a", "b", "c", "d", "e", "f", "g", "h", "i", "j", "k", "l", "m", "n", "o", "p", "q", "r", "s", "t", "u", "v", "w", "x", "y", "z">>

Range(s) == {s[i] : i \in DOMAIN s}

Digit == Range(<<"0", "1", "2", "3", "4", "5", "6", "7", "8", "9">>)
Upper == Range(UpperSeq)
Lower == Range(LowerSeq)
\* \w of the re module, on ASCII
WordChar == Digit \cup Upper \cup Lower \cup {"_"}
\* \s of the re module and the whitespace of str.strip / str.split
Space == {" "}
\* the class [.,:;!?] of clean_heading_text
TrailPunct == {".", ",", ":", ";", "!", "?"}
\* the characters of text.strip('"\'')
Quote == {"\"", "'"}

\* ord(c)
IndexOf(s, c) == CHOOSE i \in DOMAIN s : s[i] = c

Ord(c) ==
  IF \E i \in DOMAIN AsciiLow : AsciiLow[i] = c THEN 31 + IndexOf(AsciiLow, c)
  ELSE IF \E i \in DOMAIN AsciiMid : AsciiMid[i] = c THEN 92 + IndexOf(AsciiMid, c)
  ELSE 96 + IndexOf(AsciiHigh, c)

\* c.lower()
LowerChar(c) ==
  IF c \in Upper THEN LowerSeq[IndexOf(UpperSeq, c)]
  ELSE c

(***************************************************************************)
(* str methods                                                             *)
(***************************************************************************)

\* text.lower()
LowerStr(t) == [i \in DOMAIN t |-> LowerChar(t[i])]

Min(a, b) == IF a <= b THEN a ELSE b

\* text[:n]
Take(s, n) == SubSeq(s, 1, Min(n, Len(s)))

\* text.strip(chars): what lies between the first and the last character not
\* in chars
StripSet(t, cs) ==
  LET first == CHOOSE i \in 1..(Len(t) + 1) :
                 /\ i = Len(t) + 1 \/ t[i] \notin cs
                 /\ \A j \in 1..(i - 1) : t[j] \in cs
      last == CHOOSE i \in 0..Len(t) :
                /\ i = 0 \/ t[i] \notin cs
                /\ \A j \in (i + 1)..Len(t) : t[j] \in cs
  IN  SubSeq(t, first, last)

\* text.rstrip(chars)
RStripSet(t, cs) ==
  SubSeq(t, 1, CHOOSE i \in 0..Len(t) :
                 /\ i = 0 \/ t[i] \notin cs
                 /\ \A j \in (i + 1)..Len(t) : t[j] \in cs)

\* text.strip()
Strip(t) == StripSet(t, Space)

\* text.split(): the maximal runs of non-whitespace characters, left to right
Split(t) ==
  LET starts == {i \in DOMAIN t : t[i] \notin Space /\ (i = 1 \/ t[i - 1] \in Space)}
      ends == {i \in DOMAIN t : t[i] \notin Space /\ (i = Len(t) \/ t[i + 1] \in Space)}
  IN  [k \in 1..Cardinality(starts) |->
         LET first == CHOOSE i \in starts : Cardinality({j \in starts : j < i}) = k - 1
             last == CHOOSE i \in ends : i >= first /\ \A j \in ends : j >= first => i <= j
         IN  SubSeq(t, first, last)]

\* ' '.join(words)
RECURSIVE JoinSpace(_)
JoinSpace(ws) ==
  IF ws = <<>> THEN <<>>
  ELSE IF Len(ws) = 1 THEN ws[1]
  ELSE ws[1] \o <<" ">> \o JoinSpace(Tail(ws))

\* ' '.join(text.split())
CollapseSpaces(t) == JoinSpace(Split(t))

\* text.startswith(prefix)
StartsWith(t, p) == Len(t) >= Len(p) /\ SubSeq(t, 1, Len(p)) = p

\* sub in text
Contains(t, sub) ==
  \E i \in 1..(Len(t) - Len(sub) + 1) : \A k \in DOMAIN sub : t[i + k - 1] = sub[k]

\* text.istitle(): at least one cased character; an upper-case character only
\* after an uncased one, a lower-case character only after a cased one
IsTitle(t) ==
  /\ \E i \in DOMAIN t : t[i] \in Upper \cup Lower
  /\ \A i \in DOMAIN t :
       LET prevCased == i > 1 /\ t[i - 1] \in Upper \cup Lower
       IN  /\ t[i] \in Upper => ~prevCased
           /\ t[i] \in Lower => prevCased

\* text.isupper(): at least one cased character and no lower-case one
IsUpper(t) ==
  /\ \E i \in DOMAIN t : t[i] \in Upper
  /\ \A i \in DOMAIN t : t[i] \notin Lower

\* a < b for str: lexicographic on code points, a proper prefix is smaller
StrLess(a, b) ==
  LET differ == {i \in 1..Min(Len(a), Len(b)) : a[i] # b[i]}
  IN  IF differ = {} THEN Len(a) < Len(b)
      ELSE LET i == CHOOSE i \in differ : \A j \in differ : i <= j
           IN  Ord(a[i]) < Ord(b[i])

(***************************************************************************)
(* Regular expressions.  A pattern piece maps the set P of positions at    *)
(* which the match may stand to the set of positions after the piece;      *)
(* position i is "before t[i]", Len(t) + 1 is the end of the text.         *)
(* re.match succeeds iff the final set is non-empty.                       *)
(***************************************************************************)

Positions(t) == 1..(Len(t) + 1)

\* cls+
RxPlus(t, P, cls) ==
  {j \in Positions(t) : \E i \in P : i < j /\ \A k \in i..(j - 1) : t[k] \in cls}

\* cls*
RxStar(t, P, cls) == P \cup RxPlus(t, P, cls)

\* a literal character
RxChar(t, P, c) == {i + 1 : i \in {p \in P : p <= Len(t) /\ t[p] = c}}

\* a literal word under re.IGNORECASE
RxWordI(t, P, w) ==
  {i + Len(w) : i \in {p \in P : p + Len(w) - 1 <= Len(t)
                              /\ LowerStr(SubSeq(t, p, p + Len(w) - 1)) = LowerStr(w)}}

\* .+   (no text holds a newline)
RxAnyPlus(t, P) == {j \in Positions(t) : \E i \in P : i < j}

\* $
RxEnd(t, P) == P \cap {Len(t) + 1}

\* one character of a class
RxOne(t, P, cls) == {i + 1 : i \in {p \in P : p <= Len(t) /\ t[p] \in cls}}

(***************************************************************************)
(* A formatted line is a record [text, page, size, is_bold, y0]: the       *)
(* fields of extract_text_with_formatting's items that the pipeline reads  *)
(* (y0 is bbox[1]).                                                        *)
(***************************************************************************)

(***************************************************************************)
(* identify_title                                                          *)
(***************************************************************************)

Untitled == <<"U", "n", "t", "i", "t", "l", "e", "d", " ", "D", "o", "c", "u", "m", "e", "n", "t">>

\* Mutation of TitleKeyLess: the vertical position is left out of the key.
TitleKeyLess_SizeOnly(a, b) == a.size > b.size

\* the sort key (-size, bbox[1]) of a is strictly smaller than that of b
TitleKeyLess(a, b) == a.size > b.size \/ (a.size = b.size /\ a.y0 < b.y0)

\* list.sort is stable: x, which came later, goes behind the items whose key
\* is not greater than its own
RECURSIVE InsertByTitleKey(_, _)
InsertByTitleKey(x, s) ==
  IF s = <<>> THEN <<x>>
  ELSE IF TitleKeyLess(x, Head(s)) THEN <<x>> \o s
  ELSE <<Head(s)>> \o InsertByTitleKey(x, Tail(s))

RECURSIVE SortByTitleKey(_)
SortByTitleKey(s) ==
  IF s = <<>> THEN <<>>
  ELSE InsertByTitleKey(s[Len(s)], SortByTitleKey(SubSeq(s, 1, Len(s) - 1)))

OnFirstPage(item) == item.page = 1

\* re.match(r'^\d+\.?\s*$', text)
MatchNumberOnly(text) ==
  LET digits == RxPlus(text, {1}, Digit)
      period == digits \cup RxChar(text, digits, ".")
  IN  RxEnd(text, RxStar(text, period, Space)) # {}

\* the filter criteria of the loop over first_page_text[:10]
IsTitleCandidate(item) ==
  LET text == Strip(item.text)
  IN  /\ 20 <= Len(text) /\ Len(text) <= 200
      /\ item.size >= 14
      /\ ~MatchNumberOnly(text)
      /\ ~StartsWith(LowerStr(text), <<"p", "a", "g", "e">>)
      /\ Len(Split(text)) >= 2

\* max(candidates, key=lambda x: x[1]): the first item of the largest size
MaxBySize(c) ==
  c[CHOOSE i \in DOMAIN c :
      /\ \A j \in DOMAIN c : c[j].size <= c[i].size
      /\ \A j \in 1..(i - 1) : c[j].size < c[i].size]

\* re.sub(r'[^\w\s\-\:\.]', ' ', title), then ' '.join(title.split())
CleanTitle(title) ==
  CollapseSpaces([i \in DOMAIN title |->
                    IF title[i] \in WordChar \cup Space \cup {"-", ":", "."}
                    THEN title[i] ELSE " "])

\* the fallback's test of a text
IsMeaningful(item) ==
  LET text == Strip(item.text)
  IN  Len(text) > 5 /\ Len(Split(text)) >= 2

RECURSIVE StrippedTexts(_)
StrippedTexts(items) ==
  IF items = <<>> THEN <<>>
  ELSE <<Strip(Head(items).text)>> \o StrippedTexts(Tail(items))

\* first_page_text[:10], the items checked for the title
TitleWindow == 10
\* Mutation of FallbackWindow: the fallback looks at the title's window.
FallbackWindow_Title == TitleWindow
\* first_page_text[:5], the items the fallback looks at
FallbackWindow == 5

identify_title(formatted_text) ==
  LET first_page_text == SortByTitleKey(SelectSeq(formatted_text, OnFirstPage))
      candidates == SelectSeq(Take(first_page_text, TitleWindow), IsTitleCandidate)
      meaningful_texts ==
        StrippedTexts(SelectSeq(Take(first_page_text, FallbackWindow), IsMeaningful))
      combined_title == JoinSpace(Take(meaningful_texts, 2))
  IN  IF first_page_text = <<>> THEN Untitled
      ELSE IF candidates # <<>>
           THEN CleanTitle(Strip(MaxBySize(candidates).text))
      ELSE IF meaningful_texts # <<>> /\ Len(combined_title) <= 200
           THEN CollapseSpaces(combined_title)
      ELSE Untitled

(***************************************************************************)
(* analyze_document_structure                                              *)
(***************************************************************************)

RECURSIVE Sizes(_)
Sizes(formatted_text) ==
  IF formatted_text = <<>> THEN <<>>
  ELSE <<Head(formatted_text).size>> \o Sizes(Tail(formatted_text))

\* Counter(sizes)[v]
Count(sizes, v) == Cardinality({i \in DOMAIN sizes : sizes[i] = v})

\* Counter(sizes).most_common(1)[0][0]: the largest count; among equal counts
\* the key inserted first
MostCommon(sizes) ==
  sizes[CHOOSE i \in DOMAIN sizes :
          /\ \A j \in DOMAIN sizes : Count(sizes, sizes[j]) <= Count(sizes, sizes[i])
          /\ \A j \in 1..(i - 1) : Count(sizes, sizes[j]) < Count(sizes, sizes[i])]

\* sorted(set(sizes), reverse=True)
RECURSIVE SortedDescending(_)
SortedDescending(S) ==
  IF S = {} THEN <<>>
  ELSE LET m == CHOOSE x \in S : \A y \in S : y <= x
       IN  <<m>> \o SortedDescending(S \ {m})

\* Mutation of analyze_document_structure: the first size instead of the most
\* common one.
analyze_first_size(formatted_text) ==
  LET sizes == Sizes(formatted_text)
      body_text_size == sizes[1]
  IN  [body_text_size |-> body_text_size,
       size_thresholds |-> [h1 |-> body_text_size * 150,
                            h2 |-> body_text_size * 130,
                            h3 |-> body_text_size * 115],
       all_sizes |-> SortedDescending(Range(sizes))]

\* thresholds in hundredths of a point
analyze_document_structure(formatted_text) ==
  LET sizes == Sizes(formatted_text)
      body_text_size == MostCommon(sizes)
  IN  [body_text_size |-> body_text_size,
       size_thresholds |-> [h1 |-> body_text_size * 150,
                            h2 |-> body_text_size * 130,
                            h3 |-> body_text_size * 115],
       all_sizes |-> SortedDescending(Range(sizes))]

(***************************************************************************)
(* is_likely_heading                                                       *)
(***************************************************************************)

\* skip_patterns, matched with re.IGNORECASE
SkipJustNumbers(text) == RxEnd(text, RxPlus(text, {1}, Digit)) # {}

SkipPageNumber(text) ==
  RxPlus(text, RxPlus(text, RxWordI(text, {1}, <<"p", "a", "g", "e">>), Space), Digit) # {}

SkipShortWord(text) ==
  Len(text) \in 1..3 /\ \A i \in DOMAIN text : text[i] \in WordChar

SkipOnlyPunctuation(text) ==
  Len(text) >= 1 /\ \A i \in DOMAIN text : text[i] \notin WordChar \cup Space

\* the "basic filters" and skip patterns: the early returns of False
IsRejected(text) ==
  \/ Len(text) < 3 \/ Len(text) > 300
  \/ Len(Split(text)) > 20
  \/ SkipJustNumbers(text)
  \/ SkipPageNumber(text)
  \/ SkipShortWord(text)
  \/ SkipOnlyPunctuation(text)

\* self.heading_patterns, matched with re.IGNORECASE
\* the numbered prefix \d+\.  /  \d+\.\d+  /  \d+\.\d+\.\d+
RxNumber1(t) == RxChar(t, RxPlus(t, {1}, Digit), ".")
RxNumber2(t) == RxPlus(t, RxNumber1(t), Digit)
RxNumber3(t) == RxPlus(t, RxChar(t, RxNumber2(t), "."), Digit)

MatchesHeadingPattern(text) ==
  \/ RxAnyPlus(text, RxPlus(text, RxNumber1(text), Space)) # {}
  \/ RxAnyPlus(text, RxPlus(text, RxNumber2(text), Space)) # {}
  \/ RxAnyPlus(text, RxPlus(text, RxNumber3(text), Space)) # {}
  \/ RxAnyPlus(text, RxPlus(text, RxPlus(text, RxWordI(text, {1}, <<"C", "h", "a", "p", "t", "e", "r">>), Space), Digit)) # {}
  \/ RxAnyPlus(text, RxPlus(text, RxPlus(text, RxWordI(text, {1}, <<"S", "e", "c", "t", "i", "o", "n">>), Space), Digit)) # {}
  \/ RxAnyPlus(text, RxOne(text, RxPlus(text, RxWordI(text, {1}, <<"A", "p", "p", "e", "n", "d", "i", "x">>), Space),
                           Upper \cup Lower)) # {}

\* self.heading_keywords
heading_keywords ==
  {<<"i", "n", "t", "r", "o", "d", "u", "c", "t", "i", "o", "n">>, <<"o", "v", "e", "r", "v", "i", "e", "w">>, <<"b", "a", "c", "k", "g", "r", "o", "u", "n", "d">>, <<"m", "e", "t", "h", "o", "d", "o", "l", "o", "g", "y">>, <<"r", "e", "s", "u", "l", "t", "s">>,
   <<"c", "o", "n", "c", "l", "u", "s", "i", "o", "n">>, <<"r", "e", "f", "e", "r", "e", "n", "c", "e", "s">>, <<"a", "p", "p", "e", "n", "d", "i", "x">>, <<"s", "u", "m", "m", "a", "r", "y">>, <<"a", "b", "s", "t", "r", "a", "c", "t">>,
   <<"t", "a", "b", "l", "e", " ", "o", "f", " ", "c", "o", "n", "t", "e", "n", "t", "s">>, <<"r", "e", "v", "i", "s", "i", "o", "n", " ", "h", "i", "s", "t", "o", "r", "y">>, <<"g", "l", "o", "s", "s", "a", "r", "y">>, <<"i", "n", "d", "e", "x">>}

Indicators(item, structure_info) ==
  LET text == Strip(item.text)
      words == Len(Split(text))
  IN    (IF item.size * 100 > structure_info.size_thresholds.h3 THEN 2
         ELSE IF item.size > structure_info.body_text_size THEN 1 ELSE 0)
      + (IF item.is_bold THEN 2 ELSE 0)
      + (IF MatchesHeadingPattern(text) THEN 3 ELSE 0)
      + (IF \E k \in heading_keywords : Contains(LowerStr(text), k) THEN 1 ELSE 0)
      + (IF IsTitle(text) /\ words <= 8 THEN 1
         ELSE IF IsUpper(text) /\ 5 <= Len(text) /\ Len(text) <= 50 THEN 2 ELSE 0)
      + (IF 5 <= Len(text) /\ Len(text) <= 100 /\ words <= 10 THEN 1 ELSE 0)

is_likely_heading(item, structure_info) ==
  /\ ~IsRejected(Strip(item.text))
  /\ Indicators(item, structure_info) >= 3

(***************************************************************************)
(* determine_heading_level                                                 *)
(***************************************************************************)

\* Mutation of determine_heading_level: the size rules come before the
\* pattern rules.
determine_heading_level_SizeFirst(item, structure_info) ==
  LET text == Strip(item.text)
      thresholds == structure_info.size_thresholds
  IN  IF item.size * 100 >= thresholds.h1 THEN "H1"
      ELSE IF item.size * 100 >= thresholds.h2 THEN "H2"
      ELSE IF RxPlus(text, RxNumber1(text), Space) # {} THEN "H1"
      ELSE IF RxPlus(text, RxNumber2(text), Space) # {} THEN "H2"
      ELSE "H3"

determine_heading_level(item, structure_info) ==
  LET text == Strip(item.text)
      thresholds == structure_info.size_thresholds
  IN  IF RxPlus(text, RxNumber1(text), Space) # {} THEN "H1"
      ELSE IF RxPlus(text, RxNumber2(text), Space) # {} THEN "H2"
      ELSE IF RxPlus(text, RxNumber3(text), Space) # {} THEN "H3"
      ELSE IF item.size * 100 >= thresholds.h1 THEN "H1"
      ELSE IF item.size * 100 >= thresholds.h2 THEN "H2"
      ELSE "H3"

(***************************************************************************)
(* clean_heading_text                                                      *)
(***************************************************************************)

clean_heading_text(text) ==
  LET collapsed == CollapseSpaces(text)
      \* re.sub(r'[.,:;!?]+$', '', text) unless re.match(r'^\d+\.', text)
      unpunctuated == IF RxNumber1(collapsed) = {}
                      THEN RStripSet(collapsed, TrailPunct)
                      ELSE collapsed
  IN  StripSet(unpunctuated, Quote)

(***************************************************************************)
(* filter_and_deduplicate_headings                                         *)
(***************************************************************************)

\* Mutation of FalsePositives: the set without "with".
FalsePositives_WithoutWith ==
  {<<"a", "n", "d">>, <<"o", "r">>, <<"t", "h", "e">>, <<"o", "f">>, <<"i", "n">>, <<"o", "n">>, <<"a", "t">>, <<"t", "o">>, <<"f", "o", "r">>, <<"b", "y">>}

\* the set literal of "very common false positives"
FalsePositives ==
  {<<"a", "n", "d">>, <<"o", "r">>, <<"t", "h", "e">>, <<"o", "f">>, <<"i", "n">>, <<"o", "n">>, <<"a", "t">>, <<"t", "o">>, <<"f", "o", "r">>, <<"w", "i", "t", "h">>, <<"b", "y">>}

\* Mutation of filter_and_deduplicate_headings: the last occurrence of a text
\* wins instead of the first.
RECURSIVE FilterLastFrom(_)
FilterLastFrom(headings) ==
  IF headings = <<>> THEN <<>>
  ELSE LET heading == Head(headings)
           text == Strip(LowerStr(heading.text))
       IN  IF \/ text \in FalsePositives
              \/ \E k \in 2..Len(headings) : Strip(LowerStr(headings[k].text)) = text
           THEN FilterLastFrom(Tail(headings))
           ELSE <<heading>> \o FilterLastFrom(Tail(headings))

filter_last_occurrence(headings) == FilterLastFrom(headings)

RECURSIVE FilterFrom(_, _)
FilterFrom(headings, seen_texts) ==
  IF headings = <<>> THEN <<>>
  ELSE LET heading == Head(headings)
           text == Strip(LowerStr(heading.text))
       IN  IF text \in FalsePositives \/ text \in seen_texts
           THEN FilterFrom(Tail(headings), seen_texts)
           ELSE <<heading>> \o FilterFrom(Tail(headings), seen_texts \cup {text})

filter_and_deduplicate_headings(headings) == FilterFrom(headings, {})

(***************************************************************************)
(* classify_headings                                                       *)
(***************************************************************************)

\* the indices of the items for which the loop appends a heading
HeadingIndices(formatted_text, structure_info) ==
  SelectSeq([i \in DOMAIN formatted_text |-> i],
            LAMBDA i : /\ is_likely_heading(formatted_text[i], structure_info)
                       /\ clean_heading_text(formatted_text[i].text) # <<>>)

\* potential_headings after the loop: one heading for each index of idx
PotentialHeadings(formatted_text, structure_info, idx) ==
  [k \in DOMAIN idx |->
     [level |-> determine_heading_level(formatted_text[idx[k]], structure_info),
      text |-> clean_heading_text(formatted_text[idx[k]].text),
      page |-> formatted_text[idx[k]].page]]

\* the sort key (page, text) of a is strictly smaller than that of b
HeadingKeyLess(a, b) ==
  a.page < b.page \/ (a.page = b.page /\ StrLess(a.text, b.text))

RECURSIVE InsertByHeadingKey(_, _)
InsertByHeadingKey(x, s) ==
  IF s = <<>> THEN <<x>>
  ELSE IF HeadingKeyLess(x, Head(s)) THEN <<x>> \o s
  ELSE <<Head(s)>> \o InsertByHeadingKey(x, Tail(s))

\* final_headings.sort(key=lambda x: (x["page"], x["text"]))
RECURSIVE SortByHeadingKey(_)
SortByHeadingKey(s) ==
  IF s = <<>> THEN <<>>
  ELSE InsertByHeadingKey(s[Len(s)], SortByHeadingKey(SubSeq(s, 1, Len(s) - 1)))

\* Mutation of FinalHeadings: the sort is left out.
FinalHeadings_Unsorted(potential_headings) ==
  filter_and_deduplicate_headings(potential_headings)

\* "Filter and deduplicate", then "Sort by page and appearance order"
FinalHeadings(potential_headings) ==
  SortByHeadingKey(filter_and_deduplicate_headings(potential_headings))

classify_headings(formatted_text) ==
  LET structure_info == analyze_document_structure(formatted_text)
  IN  FinalHeadings(PotentialHeadings(formatted_text, structure_info,
                                      HeadingIndices(formatted_text, structure_info)))

(***************************************************************************)
(* extract_outline and main: the state machine                             *)
(***************************************************************************)

EmptyDocument == [title |-> <<"E", "m", "p", "t", "y", " ", "D", "o", "c", "u", "m", "e", "n", "t">>, outline |-> <<>>]
ErrorResult == [title |-> <<"E", "r", "r", "o", "r", " ", "P", "r", "o", "c", "e", "s", "s", "i", "n", "g", " ", "D", "o", "c", "u", "m", "e", "n", "t">>, outline |-> <<>>]

\* Mutation of IsEmpty: the empty-document test is left out.
IsEmpty_Never(formatted_text) == FALSE

\* "if not formatted_text"
IsEmpty(formatted_text) == formatted_text = <<>>

\* structure_info before analyze_document_structure has run
NoStructure ==
  [body_text_size |-> 0, size_thresholds |-> [h1 |-> 0, h2 |-> 0, h3 |-> 0],
   all_sizes |-> <<>>]

\* A document of the input directory is the line sequence its decoding yields
\* and the place, if any, at which processing it raises an exception:
\* "source" in extract_text_with_formatting, "title" in identify_title,
\* "classify" in classify_headings.
Faults == {"none", "source", "title", "classify"}

VARIABLES
  batch,               \* the documents of the input directory, in listing order
  pending,             \* the documents main's loop has not reached yet
  results,             \* the results main has saved, in order
  pc,                  \* where the program stands
  doc,                 \* the document being processed
  formatted_text,      \* extract_outline's local
  title,               \* extract_outline's local
  structure_info,      \* classify_headings's local
  potential_headings,  \* classify_headings's local
  origin,              \* origin[k]: the index of the line potential_headings[k] came from
  headings,            \* extract_outline's local
  calls                \* the methods called so far for the current document

vars == <<batch, pending, results, pc, doc, formatted_text, title, structure_info,
          potential_headings, origin, headings, calls>>

locals == <<formatted_text, title, structure_info, potential_headings, origin, headings>>

NoDocument == [lines |-> <<>>, fault |-> "none"]

InitOn(documents) ==
  /\ batch = documents
  /\ pending = documents
  /\ results = <<>>
  /\ pc = "main"
  /\ doc = NoDocument
  /\ formatted_text = <<>>
  /\ title = <<>>
  /\ structure_info = NoStructure
  /\ potential_headings = <<>>
  /\ origin = <<>>
  /\ headings = <<>>
  /\ calls = {}

\* main: the loop takes the next file and calls extract_outline
NextDocument ==
  /\ pc = "main" /\ pending # <<>>
  /\ doc' = Head(pending)
  /\ pending' = Tail(pending)
  /\ formatted_text' = <<>>
  /\ title' = <<>>
  /\ structure_info' = NoStructure
  /\ potential_headings' = <<>>
  /\ origin' = <<>>
  /\ headings' = <<>>
  /\ calls' = {}
  /\ pc' = "extract"
  /\ UNCHANGED <<batch, results>>

\* main: the loop is over
Finish ==
  /\ pc = "main" /\ pending = <<>>
  /\ pc' = "done"
  /\ UNCHANGED <<batch, pending, results, doc, locals, calls>>

\* formatted_text = self.extract_text_with_formatting(pdf_path)
ExtractText ==
  /\ pc = "extract" /\ doc.fault # "source"
  /\ formatted_text' = doc.lines
  /\ calls' = calls \cup {"extract_text_with_formatting"}
  /\ pc' = "check_empty"
  /\ UNCHANGED <<batch, pending, results, doc, title, structure_info,
                 potential_headings, origin, headings>>

\* if not formatted_text: return the "Empty Document" result; main saves it
ReturnEmpty ==
  /\ pc = "check_empty" /\ IsEmpty(formatted_text)
  /\ results' = Append(results, EmptyDocument)
  /\ pc' = "main"
  /\ UNCHANGED <<batch, pending, doc, locals, calls>>

\* title = self.identify_title(formatted_text)
IdentifyTitle ==
  /\ pc = "check_empty" /\ ~IsEmpty(formatted_text) /\ doc.fault # "title"
  /\ title' = identify_title(formatted_text)
  /\ calls' = calls \cup {"identify_title"}
  /\ pc' = "classify"
  /\ UNCHANGED <<batch, pending, results, doc, formatted_text, structure_info,
                 potential_headings, origin, headings>>

\* headings = self.classify_headings(formatted_text); analyze_document_structure
\* raises IndexError on an empty list (most_common(1)[0]), which the handler of
\* extract_outline turns into the error result
ClassifyHeadings ==
  /\ pc = "classify" /\ doc.fault # "classify"
  /\ calls' = calls \cup {"classify_headings", "analyze_document_structure"}
  /\ IF formatted_text = <<>>
     THEN /\ results' = Append(results, ErrorResult)
          /\ pc' = "main"
          /\ UNCHANGED <<structure_info, potential_headings, origin, headings>>
     ELSE /\ structure_info' = analyze_document_structure(formatted_text)
          /\ origin' = HeadingIndices(formatted_text, structure_info')
          /\ potential_headings' =
               PotentialHeadings(formatted_text, structure_info', origin')
          /\ headings' = FinalHeadings(potential_headings')
          /\ pc' = "return"
          /\ UNCHANGED results
  /\ UNCHANGED <<batch, pending, doc, formatted_text, title>>

\* return {"title": title, "outline": headings}; main saves it
ReturnOutline ==
  /\ pc = "return"
  /\ results' = Append(results, [title |-> title, outline |-> headings])
  /\ pc' = "main"
  /\ UNCHANGED <<batch, pending, doc, locals, calls>>

\* the stage of the try block at which the document's exception is raised
RaisesAt(d, stage) ==
  \/ stage = "extract" /\ d.fault = "source"
  \/ stage = "check_empty" /\ d.fault = "title" /\ ~IsEmpty(formatted_text)
  \/ stage = "classify" /\ d.fault = "classify"

\* Mutation of HandleException: the exception leaves extract_outline and ends
\* main.
HandleException_Propagates ==
  /\ RaisesAt(doc, pc)
  /\ pc' = "done"
  /\ UNCHANGED <<batch, pending, results, doc, locals, calls>>

\* except Exception: return the "Error Processing Document" result; main saves it
HandleException ==
  /\ RaisesAt(doc, pc)
  /\ results' = Append(results, ErrorResult)
  /\ pc' = "main"
  /\ UNCHANGED <<batch, pending, doc, locals, calls>>

Next ==
  \/ NextDocument
  \/ Finish
  \/ ExtractText
  \/ ReturnEmpty
  \/ IdentifyTitle
  \/ ClassifyHeadings
  \/ ReturnOutline
  \/ HandleException

(***************************************************************************)
(* Inputs                                                                  *)
(***************************************************************************)

Line(text, page, size, is_bold, y0) ==
  [text |-> text, page |-> page, size |-> size, is_bold |-> is_bold, y0 |-> y0]

\* n copies of a character
Rep(c, n) == [i \in 1..n |-> c]

\* the sequences over S of length at most n
SeqsUpTo(S, n) == UNION {[1..k -> S] : k \in 0..n}

\* the source yields the lines page by page
PageOrdered(lines) ==
  \A i \in 1..(Len(lines) - 1) : lines[i].page <= lines[i + 1].page

\* the documents that raise: one at each stage, and one whose fault lies
\* behind the empty-document return
FaultyDocuments(lines) ==
  {[lines |-> lines, fault |-> f] : f \in Faults \ {"none"}}
    \cup {[lines |-> <<>>, fault |-> "classify"]}

Sound(lineSeqs) == {[lines |-> l, fault |-> "none"] : l \in lineSeqs}

(***************************************************************************)
(* Batches: up to MaxDocs documents of a few lines, sound or faulty.        *)
(***************************************************************************)
MaxDocs == 2

IntroLine == Line(<<"1", ".", " ", "I", "n", "t", "r", "o", "d", "u", "c", "t", "i", "o", "n">>, 1, 12, FALSE, 200)
ReportLine == Line(<<"Q", "u", "a", "r", "t", "e", "r", "l", "y", " ", "R", "e", "p", "o", "r", "t", " ", "2", "0", "2", "4">>, 1, 20, TRUE, 50)
BodyLine == Line(<<"t", "h", "e", " ", "q", "u", "i", "c", "k", " ", "b", "r", "o", "w", "n", " ", "f", "o", "x", " ", "j", "u", "m", "p", "s">>, 1, 10, FALSE, 300)

BatchDocuments ==
  Sound({<<>>, <<IntroLine>>, <<ReportLine, BodyLine, IntroLine>>})
    \cup FaultyDocuments(<<ReportLine, IntroLine>>)

Init == \E documents \in SeqsUpTo(BatchDocuments, MaxDocs) : InitOn(documents)

Spec == Init /\ [][Next]_vars

(***************************************************************************)
(* Title documents: one document whose first page opens with up to MaxPad  *)
(* stamp lines in the largest font (neither title candidates nor           *)
(* meaningful texts: a single word), followed by up to MaxTail lines of    *)
(* TitleLines.                                                             *)
(***************************************************************************)
MaxPad == 10
MaxTail == 2

Stamp(k) == Line(<<"C", "O", "N", "F", "I", "D", "E", "N", "T", "I", "A", "L">>, 1, 30, TRUE, 10 * k)

\* 100 characters, two words, a double space between them
Wide == Rep("x", 97) \o <<" ", " ", "y">>
\* 201 characters, two words
Long201 == <<"A", " ">> \o Rep("b", 199)

TitleLines ==
  {Line(<<"A", "n", "n", "u", "a", "l", " ", "R", "e", "p", "o", "r", "t", " ", "(", "D", "r", "a", "f", "t", ")", " ", "2", "0", "2", "4", "!">>, 1, 40, TRUE, 50),
   Line(<<"Q", "u", "a", "r", "t", "e", "r", "l", "y", " ", "R", "e", "p", "o", "r", "t", " ", "2", "0", "2", "4">>, 1, 14, FALSE, 100),
   Line(<<"T", "w", "e", "n", "t", "y", " ", "c", "h", "a", "r", "a", "c", "t", "e", "r", "s", " ", "o", "k">>, 1, 14, FALSE, 50),
   Line(<<"N", "i", "n", "e", "t", "e", "e", "n", " ", "c", "h", "a", "r", "s", " ", "o", "n", "l", "y">>, 1, 20, FALSE, 50),
   Line(<<"P", "a", "g", "e", " ", "1", " ", "o", "f", " ", "t", "h", "e", " ", "A", "n", "n", "u", "a", "l", " ", "R", "e", "p", "o", "r", "t">>, 1, 20, FALSE, 50),
   Line(<<"S", "u", "p", "e", "r", "c", "a", "l", "i", "f", "r", "a", "g", "i", "l", "i", "s", "t", "i", "c", "e", "x", "p", "i", "a", "l", "i", "d", "o", "c", "i", "o", "u", "s">>, 1, 40, TRUE, 10),
   Line(<<"Q", "u", "a", "r", "t", "e", "r", "l", "y", " ", "R", "e", "p", "o", "r", "t", " ", "2", "0", "2", "5">>, 2, 40, FALSE, 10),
   Line(<<"H", "i", " ", " ", "y", "o", "u">>, 1, 10, FALSE, 100),
   Line(Wide, 1, 13, FALSE, 100),
   Line(Long201, 1, 40, FALSE, 50)}

TitleDocuments ==
  {[lines |-> [k \in 1..n |-> Stamp(k)] \o tail, fault |-> "none"] :
     n \in 0..MaxPad, tail \in {t \in SeqsUpTo(TitleLines, MaxTail) : PageOrdered(t)}}
    \cup FaultyDocuments(<<Stamp(1)>>)

InitTitle == \E d \in TitleDocuments : InitOn(<<d>>)

SpecTitle == InitTitle /\ [][Next]_vars

(***************************************************************************)
(* Heading documents: one document of up to MaxLines lines of HeadingLines. *)
(***************************************************************************)
MaxLines == 2

HeadingLines ==
  {Line(<<"2", ".", "3", " ", "D", "a", "t", "a", " ", "C", "o", "l", "l", "e", "c", "t", "i", "o", "n">>, 4, 10, FALSE, 100),
   Line(<<"1", ".", " ", "I", "n", "t", "r", "o", ":">>, 1, 10, FALSE, 100),
   Line(<<"1", ".", "2", ".", "3", " ", "D", "e", "e", "p", " ", "D", "i", "v", "e">>, 2, 15, TRUE, 100),
   Line(<<"1", ".", " ">> \o JoinSpace([i \in 1..20 |-> <<"a">>]), 1, 10, TRUE, 100),
   Line(<<"S", "u", "m", "m", "a", "r", "y", ":">>, 1, 15, FALSE, 100),
   Line(<<"S", "U", "M", "M", "A", "R", "Y">>, 2, 16, TRUE, 100),
   Line(<<"S", "u", "m", "m", "a", "r", "y">>, 1, 12, TRUE, 100),
   Line(<<"\"", "H", "e", "l", "l", "o", ".", "\"">>, 1, 10, TRUE, 100),
   Line(<<"\"", "H", "e", "l", "l", "o", ".", "\"", "!">>, 2, 10, TRUE, 100),
   Line(<<"H", "e", "l", "l", "o", " ", " ", "W", "o", "r", "l", "d", "!", "?">>, 1, 10, TRUE, 100),
   Line(<<"a", "n", "d", ".">>, 1, 15, TRUE, 100),
   Line(<<"\"", "A", "N", "D", "\"">>, 1, 10, TRUE, 100),
   Line(<<"w", "i", "t", "h", ".">>, 2, 10, TRUE, 100),
   Line(<<"'", "B", "y", "'">>, 1, 10, TRUE, 100),
   Line(<<"\"", "A", "\"">>, 1, 10, TRUE, 100),
   Line(<<"\"", " ", "N", "o", "t", "e", "s", "\"">>, 1, 10, TRUE, 100),
   Line(<<"N", "o", "t", "e", "s">>, 2, 10, TRUE, 100),
   Line(<<"t", "h", "e", " ", "q", "u", "i", "c", "k", " ", "b", "r", "o", "w", "n", " ", "f", "o", "x", " ", "j", "u", "m", "p", "s">>, 1, 10, FALSE, 100),
   Line(<<"P", "a", "g", "e", " ", "1", "2">>, 2, 15, TRUE, 100),
   Line(<<".", ".", ".">>, 1, 15, TRUE, 100),
   Line(<<"C", "h", "a", "p", "t", "e", "r", " ", "1", " ", "I", "n", "t", "r", "o">>, 2, 10, FALSE, 100),
   Line(<<"A", "p", "p", "e", "n", "d", "i", "x", " ", "A", " ", "D", "a", "t", "a">>, 4, 13, FALSE, 100),
   Line(<<"a", "p", "p", "l", "e", " ", "p", "i", "e">>, 1, 10, TRUE, 100),
   Line(<<"Z", "e", "b", "r", "a", " ", "C", "r", "o", "s", "s", "i", "n", "g">>, 1, 10, TRUE, 100)}

HeadingDocuments ==
  Sound({l \in SeqsUpTo(HeadingLines, MaxLines) : PageOrdered(l)})
    \cup FaultyDocuments(<<Line(<<"1", ".", " ", "I", "n", "t", "r", "o", ":">>, 1, 10, FALSE, 100)>>)

InitHeadings == \E d \in HeadingDocuments : InitOn(<<d>>)

SpecHeadings == InitHeadings /\ [][Next]_vars

(***************************************************************************)
(* Properties                                                              *)
(***************************************************************************)

\* every outline produced so far: the one classify_headings returned for the
\* current document and those of the saved results
Outlines == {headings} \cup {results[k].outline : k \in DOMAIN results}

\* the last character of a text is one of . , : ; ! ?
EndsWithPunct(t) == t # <<>> /\ t[Len(t)] \in TrailPunct

\* a text begins with digits followed by a period
BeginsNumbered(t) ==
  \E a \in DOMAIN t : /\ \A k \in 1..a : t[k] \in Digit
                      /\ a + 1 <= Len(t) /\ t[a + 1] = "."

\* the stop-word set as the specification lists it
StopWordsAsStated ==
  {<<"a">>, <<"a", "n", "d">>, <<"o", "r">>, <<"t", "h", "e">>, <<"o", "f">>, <<"i", "n">>, <<"o", "n">>, <<"a", "t">>, <<"t", "o">>, <<"f", "o", "r">>, <<"w", "i", "t", "h">>, <<"b", "y">>}

\* the lower-cased, whitespace-trimmed text of a heading
Folded(t) == Strip(LowerStr(t))

C2_DedupLaw ==
  /\ \A o \in Outlines : \A i, j \in DOMAIN o :
       i # j => LowerStr(o[i].text) # LowerStr(o[j].text)
  /\ \A i \in DOMAIN headings :
       LET same == {k \in DOMAIN potential_headings :
                      LowerStr(potential_headings[k].text) = LowerStr(headings[i].text)}
       IN  /\ same # {}
           /\ headings[i] = potential_headings[CHOOSE k \in same : \A m \in same : k <= m]
  /\ pc = "return" =>
       \A k \in DOMAIN potential_headings :
         Folded(potential_headings[k].text) \notin StopWordsAsStated \ {<<"a">>}
           => \E i \in DOMAIN headings :
                Folded(headings[i].text) = Folded(potential_headings[k].text)

\* two candidates on different pages, with different levels, share a
\* lower-cased text: the first is in the outline, the second is not
C2_Witness ==
  /\ pc = "return"
  /\ \E k1, k2 \in DOMAIN potential_headings :
       /\ k1 < k2
       /\ LowerStr(potential_headings[k1].text) = LowerStr(potential_headings[k2].text)
       /\ potential_headings[k1].page # potential_headings[k2].page
       /\ potential_headings[k1].level # potential_headings[k2].level
       /\ \E i \in DOMAIN headings : headings[i] = potential_headings[k1]
       /\ \A i \in DOMAIN headings : headings[i] # potential_headings[k2]

IsFormN(t) ==
  \E a \in DOMAIN t :
    /\ \A k \in 1..a : t[k] \in Digit
    /\ a + 2 <= Len(t) /\ t[a + 1] = "." /\ t[a + 2] \in Space

IsFormNN(t) ==
  \E a, b \in DOMAIN t :
    /\ \A k \in 1..a : t[k] \in Digit
    /\ a + 2 <= b /\ t[a + 1] = "."
    /\ \A k \in (a + 2)..b : t[k] \in Digit
    /\ b + 1 <= Len(t) /\ t[b + 1] \in Space

IsFormNNN(t) ==
  \E a, b, c \in DOMAIN t :
    /\ \A k \in 1..a : t[k] \in Digit
    /\ a + 2 <= b /\ t[a + 1] = "."
    /\ \A k \in (a + 2)..b : t[k] \in Digit
    /\ b + 2 <= c /\ t[b + 1] = "."
    /\ \A k \in (b + 2)..c : t[k] \in Digit
    /\ c + 1 <= Len(t) /\ t[c + 1] \in Space

\* the level the size rules give: size >= tier1 -> H1, else size >= tier2 -> H2,
\* else H3, the tiers being 1.5 and 1.3 times the body text size
LevelBySize(size, body) ==
  IF size * 100 >= body * 150 THEN "H1"
  ELSE IF size * 100 >= body * 130 THEN "H2" ELSE "H3"

\* the level the pattern rules give a numbered text
LevelByForm(t) == IF IsFormN(t) THEN "H1" ELSE IF IsFormNN(t) THEN "H2" ELSE "H3"

\* C6: once a document is classified, every line that is not hard-rejected and
\* has a numbered form is a heading candidate whose level is that of its form
\* (N. -> H1, N.N -> H2, N.N.N -> H3) whatever its size and bold flag; a
\* candidate of no numbered form has the level of the size rules; and the
\* non-bold line "2.3 Data Collection" of body text size on page 4 is in the
\* outline with level H2 and page 4 (no earlier candidate having its text).
C6_PatternPrecedence ==
  pc = "return" =>
    /\ \A i \in DOMAIN formatted_text :
         LET text == Strip(formatted_text[i].text)
         IN  (~IsRejected(text) /\ (IsFormN(text) \/ IsFormNN(text) \/ IsFormNNN(text)))
               => \E k \in DOMAIN potential_headings :
                    /\ origin[k] = i
                    /\ potential_headings[k].level = LevelByForm(text)
                    /\ potential_headings[k].page = formatted_text[i].page
    /\ \A k \in DOMAIN potential_headings :
         LET item == formatted_text[origin[k]]
             text == Strip(item.text)
         IN  ~(IsFormN(text) \/ IsFormNN(text) \/ IsFormNNN(text))
               => potential_headings[k].level =
                    LevelBySize(item.size, structure_info.body_text_size)
    /\ \A i \in DOMAIN formatted_text :
         LET item == formatted_text[i]
         IN  (/\ item.text = <<"2", ".", "3", " ", "D", "a", "t", "a", " ", "C", "o", "l", "l", "e", "c", "t", "i", "o", "n">>
              /\ item.page = 4
              /\ ~item.is_bold
              /\ item.size = structure_info.body_text_size
              /\ \A j \in 1..(i - 1) :
                   LowerStr(formatted_text[j].text) # LowerStr(item.text))
               => \E h \in DOMAIN headings :
                    headings[h] = [level |-> "H2", text |-> item.text, page |-> 4]

\* the line "2.3 Data Collection", not bold, of body text size, on page 4, is in
\* the outline as H2 with page 4
C6_Witness ==
  /\ pc = "return"
  /\ \E i \in DOMAIN formatted_text, h \in DOMAIN headings :
       /\ formatted_text[i].text = <<"2", ".", "3", " ", "D", "a", "t", "a", " ", "C", "o", "l", "l", "e", "c", "t", "i", "o", "n">>
       /\ ~formatted_text[i].is_bold
       /\ formatted_text[i].size = structure_info.body_text_size
       /\ headings[h] = [level |-> "H2", text |-> <<"2", ".", "3", " ", "D", "a", "t", "a", " ", "C", "o", "l", "l", "e", "c", "t", "i", "o", "n">>, page |-> 4]

\* the maximal run of trailing punctuation of a text
TrailingRun(t) ==
  SubSeq(t, (CHOOSE i \in 0..Len(t) :
               /\ i = 0 \/ t[i] \notin TrailPunct
               /\ \A j \in (i + 1)..Len(t) : t[j] \in TrailPunct) + 1, Len(t))

Raises(d) ==
  \/ d.fault = "source"
  \/ d.fault \in {"title", "classify"} /\ d.lines # <<>>

\* C4: every document of the batch gets exactly one result, in order (none is
\* lost or doubled while the batch runs, and when main ends there are as many
\* results as documents); the result of a document whose processing raises is
\* exactly {title: "Error Processing Document", outline: []}.
C4_FailureIsolation ==
  /\ Len(results) + (IF pc \in {"main", "done"} THEN 0 ELSE 1) + Len(pending)
       = Len(batch)
  /\ pc = "done" => Len(results) = Len(batch)
  /\ \A k \in DOMAIN results :
       Raises(batch[k]) =>
         results[k] = [title |-> <<"E", "r", "r", "o", "r", " ", "P", "r", "o", "c", "e", "s", "s", "i", "n", "g", " ", "D", "o", "c", "u", "m", "e", "n", "t">>, outline |-> <<>>]

\* the batch is done; a document raised in classify_headings, after its title
\* was found, and the document after it has its outline
C4_Witness ==
  /\ pc = "done"
  /\ \E k \in 1..(Len(batch) - 1) :
       /\ batch[k].fault = "classify" /\ batch[k].lines # <<>>
       /\ results[k] = [title |-> <<"E", "r", "r", "o", "r", " ", "P", "r", "o", "c", "e", "s", "s", "i", "n", "g", " ", "D", "o", "c", "u", "m", "e", "n", "t">>, outline |-> <<>>]
       /\ batch[k + 1].fault = "none"
       /\ results[k + 1].outline # <<>>

\* C5: when the line source yields no line, none of identify_title,
\* classify_headings and analyze_document_structure is called, and the result
\* is exactly {title: "Empty Document", outline: []}.
C5_EmptyDocument ==
  /\ ("extract_text_with_formatting" \in calls /\ formatted_text = <<>>)
       => calls = {"extract_text_with_formatting"}
  /\ \A k \in DOMAIN results :
       (batch[k].fault # "source" /\ batch[k].lines = <<>>)
         => results[k] = [title |-> <<"E", "m", "p", "t", "y", " ", "D", "o", "c", "u", "m", "e", "n", "t">>, outline |-> <<>>]

\* an empty document has been returned as "Empty Document" after the line
\* source alone was called
C5_Witness ==
  /\ pc = "main" /\ results # <<>>
  /\ batch[Len(results)].lines = <<>> /\ batch[Len(results)].fault # "source"
  /\ results[Len(results)] = [title |-> <<"E", "m", "p", "t", "y", " ", "D", "o", "c", "u", "m", "e", "n", "t">>, outline |-> <<>>]
  /\ calls = {"extract_text_with_formatting"}

\* the page-1 lines
FirstPage == {i \in DOMAIN formatted_text : formatted_text[i].page = 1}

\* line i stands before line j in the order by (-size, y0); lines of equal key
\* keep their order
Before(i, j) ==
  LET a == formatted_text[i]
      b == formatted_text[j]
  IN  \/ a.size > b.size
      \/ a.size = b.size /\ a.y0 < b.y0
      \/ a.size = b.size /\ a.y0 = b.y0 /\ i < j

\* the place of page-1 line i in that order, from 1
Position(i) == Cardinality({j \in FirstPage : Before(j, i)}) + 1

\* the number of words of a text
WordCount(t) ==
  Cardinality({i \in DOMAIN t : t[i] \notin Space /\ (i = 1 \/ t[i - 1] \in Space)})

\* a number, optionally followed by a period and by spaces
PurelyNumber(t) ==
  \E a \in DOMAIN t :
    /\ \A k \in 1..a : t[k] \in Digit
    /\ \A k \in (a + 1)..Len(t) : (k = a + 1 /\ t[k] = ".") \/ t[k] \in Space

\* the title criteria as stated
IsCandidateAsStated(i) ==
  LET t == Strip(formatted_text[i].text)
  IN  /\ 20 <= Len(t) /\ Len(t) <= 200
      /\ formatted_text[i].size >= 14
      /\ ~PurelyNumber(t)
      /\ ~(Len(t) >= 4 /\ LowerStr(SubSeq(t, 1, 4)) = <<"p", "a", "g", "e">>)
      /\ WordCount(t) >= 2

\* the title candidates: among the first 10 of the order
Candidates == {i \in FirstPage : Position(i) <= 10 /\ IsCandidateAsStated(i)}

\* C7: once identify_title has run: with no page-1 line the title is "Untitled
\* Document"; with at least one candidate (a page-1 line among the first 10 by
\* (-size, y0) that meets the criteria) the title is the cleaned text of the
\* candidate that stands before every other candidate: the largest, and among
\* equally large ones the topmost.
C7_TitleSelection ==
  "identify_title" \in calls =>
    /\ FirstPage = {} => title = <<"U", "n", "t", "i", "t", "l", "e", "d", " ", "D", "o", "c", "u", "m", "e", "n", "t">>
    /\ Candidates # {} =>
         \E w \in Candidates :
           /\ \A j \in Candidates \ {w} : Before(w, j)
           /\ title = CleanTitle(Strip(formatted_text[w].text))

\* a title was chosen among the candidates while a line that meets the
\* criteria stands outside the first 10
C7_Witness ==
  /\ "identify_title" \in calls
  /\ Candidates # {}
  /\ \E i \in FirstPage : Position(i) > 10 /\ IsCandidateAsStated(i)
  /\ title # <<"U", "n", "t", "i", "t", "l", "e", "d", " ", "D", "o", "c", "u", "m", "e", "n", "t">>

\* the number of lines of a size
SizeCount(v) == Cardinality({i \in DOMAIN formatted_text : formatted_text[i].size = v})

\* C8: once a document is classified, bodyTextSize is a size of the document
\* that no other size outnumbers; the thresholds are 1.5, 1.3 and 1.15 times
\* it (here in hundredths) and h1 > h2 > h3 > bodyTextSize > 0; and the line
\* sequence is the one the source produced.
C8_StructureStatistics ==
  pc = "return" =>
    LET body == structure_info.body_text_size
        t == structure_info.size_thresholds
    IN  /\ \E i \in DOMAIN formatted_text : formatted_text[i].size = body
        /\ \A i \in DOMAIN formatted_text :
             SizeCount(formatted_text[i].size) <= SizeCount(body)
        /\ t.h1 = body * 150 /\ t.h2 = body * 130 /\ t.h3 = body * 115
        /\ t.h1 > t.h2 /\ t.h2 > t.h3 /\ t.h3 > body * 100 /\ body > 0
        /\ formatted_text = doc.lines

\* the most common size is neither the first nor the largest size of the
\* document
C8_Witness ==
  /\ pc = "return"
  /\ structure_info.body_text_size # formatted_text[1].size
  /\ \E i \in DOMAIN formatted_text :
       formatted_text[i].size > structure_info.body_text_size
  /\ \A i \in DOMAIN formatted_text :
       formatted_text[i].size # structure_info.body_text_size
         => SizeCount(formatted_text[i].size) < SizeCount(structure_info.body_text_size)

\* a meaningful line: more than 5 characters, at least 2 words
Meaningful(i) ==
  LET t == Strip(formatted_text[i].text)
  IN  Len(t) > 5 /\ WordCount(t) >= 2

\* the meaningful lines among the first n of the order
MeaningfulIn(n) == {i \in FirstPage : Position(i) <= n /\ Meaningful(i)}

\* the first line of S in the order
FirstOf(S) == CHOOSE i \in S : \A j \in S \ {i} : Before(i, j)

\* the texts of up to the first two lines of S, joined by a space
Combined(S) ==
  IF S = {} THEN <<>>
  ELSE LET m1 == FirstOf(S)
       IN  IF S = {m1} THEN Strip(formatted_text[m1].text)
           ELSE Strip(formatted_text[m1].text) \o <<" ">>
                  \o Strip(formatted_text[FirstOf(S \ {m1})].text)

\* C9 as stated: with page-1 lines but no candidate, the title is the
\* whitespace-collapsed join of up to the first two meaningful lines of the
\* top-10 window if that string has at most 200 characters, and "Untitled
\* Document" otherwise.
C9_FallbackAsStated ==
  ("identify_title" \in calls /\ FirstPage # {} /\ Candidates = {}) =>
    LET S == MeaningfulIn(10)
        c == CollapseSpaces(Combined(S))
    IN  title = IF S # {} /\ Len(c) <= 200 THEN c ELSE <<"U", "n", "t", "i", "t", "l", "e", "d", " ", "D", "o", "c", "u", "m", "e", "n", "t">>

\* C9 amended: with page-1 lines but no candidate, the title is the
\* whitespace-collapsed join of up to the first two meaningful lines among the
\* first 5 of the order, if the join has at most 200 characters before the
\* collapsing, and "Untitled Document" otherwise.
C9_Fallback ==
  ("identify_title" \in calls /\ FirstPage # {} /\ Candidates = {}) =>
    LET S == MeaningfulIn(5)
        c == Combined(S)
    IN  title = IF S # {} /\ Len(c) <= 200 THEN CollapseSpaces(c)
                ELSE <<"U", "n", "t", "i", "t", "l", "e", "d", " ", "D", "o", "c", "u", "m", "e", "n", "t">>

\* without a candidate, the title is made of two meaningful lines and the
\* collapsing changed it
C9_Witness ==
  /\ "identify_title" \in calls /\ FirstPage # {} /\ Candidates = {}
  /\ Cardinality(MeaningfulIn(5)) >= 2
  /\ title # <<"U", "n", "t", "i", "t", "l", "e", "d", " ", "D", "o", "c", "u", "m", "e", "n", "t">>
  /\ title # Combined(MeaningfulIn(5))

====
